---- MODULE Spec2Model ----
(***************************************************************************)
(* A model of gh-stats (src/src/stats.py, src/src/gen.py):                 *)
(*   - GitHubAPI.query_rest, the bounded retry loop           (SpecRest)   *)
(*   - GitHubAPI.semaphore, the class-wide limiter            (SpecSem)    *)
(*   - replace_with_data, the template substitution           (SpecTpl)    *)
(*   - Stats.get and the lazy accessors of Stats, driven by one caller     *)
(*     (SpecSolo) or by the three generate_image tasks of main (Spec)      *)
(* Strings are TLA+ strings or sequences of lexical units; Optional[T] is  *)
(* a sequence of length 0 (None) or 1.                                     *)
(***************************************************************************)
EXTENDS Integers, Sequences, FiniteSets, TLC

VARIABLES
    \* ---- GitHubAPI.semaphore (class attribute, stats.py:23)
    sem_value,      \* free permits of the asyncio.Semaphore
    \* ---- one call of GitHubAPI.query_rest
    rest_pc,        \* "idle" | "loop" | "get" | "json" | "sleep" | "done"
    rest_i,         \* iterations of `for _ in range(60)` begun
    rest_requests,  \* session.get calls issued by this call
    rest_result,    \* None, or Some(returned value)
    rest_n202,      \* history: number of leading answers with status 202
    rest_first,     \* history: the first answer that was not a 202
    \* ---- callers of query_graphql / query_rest contending for the semaphore
    callers,        \* position |-> number of callers there
    \* ---- one call of replace_with_data
    tpl_pc,         \* "idle" | "loop" | "done"
    tpl_template,   \* the `content` argument
    tpl_data,       \* the `data` argument: sequence of <<key, value>> in dict order
    tpl_k,          \* items of data.items() consumed
    tpl_content,    \* the local `content`
    \* ---- the server and the configuration of one run of gen.main
    owned_pages,    \* viewer.repositories, as a sequence of pages
    contrib_pages,  \* viewer.repositoriesContributedTo, as a sequence of pages
    display_name,   \* viewer.name: None (null) or Some(name)
    options,        \* Options: excluded_repos, excluded_langs, exclude_forked_repos
    \* ---- the Stats object shared by the tasks, and the tasks
    stats,          \* the fields _name .. _lines_changed, each None or Some(v)
    tasks,          \* per task: position and the locals of the running coroutine
    running,        \* the task the event loop is running, 0 between steps
    overview_failed,\* history: some overview query failed (answered {})
    failures_left,  \* how many more upstream calls of the run may fail
    contrib_fetches \* history: fetches of the total contributions

varsSem  == <<sem_value>>
varsRest == <<rest_pc, rest_i, rest_requests, rest_result, rest_n202, rest_first>>
varsCall == <<callers>>
varsTpl  == <<tpl_pc, tpl_template, tpl_data, tpl_k, tpl_content>>
varsSrv  == <<owned_pages, contrib_pages, display_name, options>>
varsRun  == <<stats, tasks, running, overview_failed, failures_left, contrib_fetches>>
vars     == <<varsSem, varsRest, varsCall, varsTpl, varsSrv, varsRun>>

\* what the actions of one part leave alone
othersRest == <<varsCall, varsTpl, varsSrv, varsRun>>
othersCall == <<varsRest, varsTpl, varsSrv, varsRun>>
othersTpl  == <<varsSem, varsRest, varsCall, varsSrv, varsRun>>
othersRun  == <<varsRest, varsCall, varsTpl, varsSrv>>

None    == <<>>
Some(v) == <<v>>

(***************************************************************************)
(* GitHubAPI.semaphore                                                      *)
(***************************************************************************)
\* asyncio.Semaphore(10): the initial number of permits
SemaphorePermits == 10

\* Semaphore.acquire() returns without waiting only while a permit is free
SemCanAcquire == sem_value > 0

(***************************************************************************)
(* GitHubAPI.query_rest                                                     *)
(***************************************************************************)
\* range(60)
RestAttempts == 60

\* the non-null JSON bodies a 200 answer may carry
Payloads == {"[]", "[contributors]"}

\* what response.json() yields for a non-202 answer: a payload, JSON null /
\* an empty body (None), or a ClientError (ContentTypeError)
JsonOutcomes == Payloads \cup {"null", "error"}

\* (faulty variant of the loop header: one iteration too many)
RestLoopContinuesOffByOne(i) == i <= RestAttempts
\* the loop header `for _ in range(60)`: another iteration is begun
RestLoopContinues(i) == i < RestAttempts

\* `if response.status == 202`
RestIsProcessing(status) == status = "202"

\* another iteration: acquire the semaphore and issue session.get
RestIssue ==
    /\ rest_pc = "loop" /\ RestLoopContinues(rest_i) /\ SemCanAcquire
    /\ rest_i' = rest_i + 1
    /\ rest_requests' = rest_requests + 1
    /\ sem_value' = sem_value - 1
    /\ rest_pc' = "get"
    /\ UNCHANGED <<rest_result, rest_n202, rest_first, othersRest>>

\* session.get completes (a status line arrives) or fails with a ClientError;
\* either way `async with self.semaphore` is left
RestResponse ==
    /\ rest_pc = "get"
    /\ sem_value' = sem_value + 1
    /\ \E status \in {"202", "200", "error"} :
          /\ rest_pc' = IF RestIsProcessing(status) \/ status = "error"
                          THEN "sleep" ELSE "json"
          /\ rest_n202' = IF status = "202" /\ rest_first = "none"
                            THEN rest_n202 + 1 ELSE rest_n202
          /\ rest_first' = IF status = "error" /\ rest_first = "none"
                             THEN "error" ELSE rest_first
    /\ UNCHANGED <<rest_i, rest_requests, rest_result, othersRest>>

\* `result = await response.json()`; `if result is not None: return result`
RestJson ==
    /\ rest_pc = "json"
    /\ \E body \in JsonOutcomes :
          /\ rest_first' = IF rest_first = "none" THEN body ELSE rest_first
          /\ CASE body = "error" -> rest_pc' = "sleep" /\ UNCHANGED rest_result
               [] body = "null"  -> rest_pc' = "loop" /\ UNCHANGED rest_result
               [] OTHER          -> rest_pc' = "done" /\ rest_result' = Some(body)
    /\ UNCHANGED <<sem_value, rest_i, rest_requests, rest_n202, othersRest>>

\* `await asyncio.sleep(2); continue`
RestSleep ==
    /\ rest_pc = "sleep"
    /\ rest_pc' = "loop"
    /\ UNCHANGED <<sem_value, rest_i, rest_requests, rest_result, rest_n202, rest_first, othersRest>>

\* the loop is exhausted: `return dict()`
RestGiveUp ==
    /\ rest_pc = "loop" /\ ~RestLoopContinues(rest_i)
    /\ rest_pc' = "done"
    /\ rest_result' = Some("{}")
    /\ UNCHANGED <<sem_value, rest_i, rest_requests, rest_n202, rest_first, othersRest>>

(***************************************************************************)
(* Callers of query_graphql and query_rest sharing GitHubAPI.semaphore.     *)
(* The semaphore is a class attribute, so every GitHubAPI instance uses the *)
(* same one; callers are counted per position.                              *)
(***************************************************************************)
\* number of concurrent callers
NCallers == 11

Positions == {"idle", "gql_wait", "gql_post", "gql_json",
              "rest_wait", "rest_get", "rest_json", "rest_sleep", "returned"}

Move(from, to) ==
    /\ callers[from] > 0
    /\ callers' = [callers EXCEPT ![from] = @ - 1, ![to] = @ + 1]

\* a caller enters query_graphql and reaches `async with self.semaphore`
CallGraphql == Move("idle", "gql_wait") /\ UNCHANGED <<sem_value, othersCall>>

\* the semaphore is acquired and session.post is issued
GqlAcquire ==
    /\ SemCanAcquire
    /\ Move("gql_wait", "gql_post")
    /\ sem_value' = sem_value - 1
    /\ UNCHANGED othersCall

\* the response head arrives; `await response.json()` runs inside both blocks
GqlHead == Move("gql_post", "gql_json") /\ UNCHANGED <<sem_value, othersCall>>

\* the body is read, or a ClientError ends the call: the semaphore is released
GqlReturn ==
    /\ \E from \in {"gql_post", "gql_json"} : Move(from, "returned")
    /\ sem_value' = sem_value + 1
    /\ UNCHANGED othersCall

\* a caller enters query_rest and reaches `async with self.semaphore`
CallRest == Move("idle", "rest_wait") /\ UNCHANGED <<sem_value, othersCall>>

\* the semaphore is acquired and session.get is issued
RestAcquire ==
    /\ SemCanAcquire
    /\ Move("rest_wait", "rest_get")
    /\ sem_value' = sem_value - 1
    /\ UNCHANGED othersCall

\* session.get returns the response head (or raises): `async with` is left.
\* A 202 or an error sleeps; otherwise the body is read by response.json()
\* after the semaphore was released
RestHead ==
    /\ \E to \in {"rest_sleep", "rest_json"} : Move("rest_get", to)
    /\ sem_value' = sem_value + 1
    /\ UNCHANGED othersCall

\* response.json() completes: a payload returns, None starts the next
\* iteration, a ClientError sleeps
RestBody ==
    /\ \E to \in {"returned", "rest_wait", "rest_sleep"} : Move("rest_json", to)
    /\ UNCHANGED <<sem_value, othersCall>>

\* asyncio.sleep(2) is over: next iteration
RestWake == Move("rest_sleep", "rest_wait") /\ UNCHANGED <<sem_value, othersCall>>

\* requests whose response head is awaited / whose exchange is not complete
AwaitingHead == callers["gql_post"] + callers["rest_get"]
InFlight == callers["gql_post"] + callers["gql_json"]
            + callers["rest_get"] + callers["rest_json"]

(***************************************************************************)
(* replace_with_data.  A string is a sequence of lexical units; the        *)
(* markers "{{ " and " }}" are units.                                       *)
(***************************************************************************)
MaxTemplateLen == 5

Open  == "{{ "
Close == " }}"
Names == {"a", "b"}
Units == Names \cup {Open, Close}

SeqUpTo(S, n) == UNION {[1..k -> S] : k \in 0..n}

\* the values a replacement map may hold
Values == SeqUpTo(Units, 1) \cup {<<Open, "a", Close>>}

\* dicts with keys among Names, in insertion order
Dicts == {d \in SeqUpTo(Names \X Values, Cardinality(Names)) :
             \A i, j \in 1..Len(d) : i # j => d[i][1] # d[j][1]}

\* (faulty variant of the pattern: markers without the padding blanks)
PlaceholderUnpadded(key) == <<"{{", key, "}}">>
\* "{{ " + key + " }}"
Placeholder(key) == <<Open, key, Close>>

\* str.replace(old, new): every non-overlapping occurrence, left to right
RECURSIVE Replace(_, _, _)
Replace(s, old, new) ==
    IF Len(s) < Len(old) THEN s
    ELSE IF SubSeq(s, 1, Len(old)) = old
         THEN new \o Replace(SubSeq(s, Len(old) + 1, Len(s)), old, new)
         ELSE <<Head(s)>> \o Replace(Tail(s), old, new)

\* `for key, value in data.items(): content = content.replace(...)`
ReplaceItem ==
    /\ tpl_pc = "loop" /\ tpl_k < Len(tpl_data)
    /\ tpl_content' = Replace(tpl_content, Placeholder(tpl_data[tpl_k + 1][1]),
                              tpl_data[tpl_k + 1][2])
    /\ tpl_k' = tpl_k + 1
    /\ UNCHANGED <<tpl_pc, tpl_template, tpl_data, othersTpl>>

\* `return content`
ReplaceReturn ==
    /\ tpl_pc = "loop" /\ tpl_k = Len(tpl_data)
    /\ tpl_pc' = "done"
    /\ UNCHANGED <<tpl_template, tpl_data, tpl_k, tpl_content, othersTpl>>

(***************************************************************************)
(* The server: what the overview, contribution and contributor-statistics  *)
(* queries are answered with.                                               *)
(***************************************************************************)
MaxOwnedPages   == 2
MaxContribPages == 4

\* a null entry of `nodes`
NullNode == "null"

\* nameWithOwner -> stargazers.totalCount, forkCount, languages.edges
StargazerCount(r) == CASE r = "u/a" -> 1  [] r = "u/b" -> 2  [] r = "o/c" -> 4
ForkCount(r)      == CASE r = "u/a" -> 10 [] r = "u/b" -> 20 [] r = "o/c" -> 40
LanguageEdges(r) ==
    CASE r = "u/a" -> << [name |-> "Python", size |-> 100, color |-> "#3572A5"] >>
      [] r = "u/b" -> << [name |-> "Go", size |-> 300, color |-> "#00ADD8"] >>
      [] r = "o/c" -> << [name |-> "Go", size |-> 100, color |-> "#00ADD8"],
                         [name |-> "HTML", size |-> 0, color |-> "#e34c26"] >>

\* the pages (`nodes` lists) the two collections are made of
PageSet == { <<"u/a", "u/b">>, <<"o/c", NullNode, "u/a", "o/c">> }
ContribPageSet == { <<"u/b", "o/c">> }

\* str.lower() on the language names in play
Lower(x) ==
    CASE x \in {"Go", "GO", "go"} -> "go"
      [] x \in {"Python", "python"} -> "python"
      [] x \in {"HTML", "html"} -> "html"
      [] OTHER -> x

\* after: null
NullCursor == 0

\* one collection of the overview answer for `after: cursor`: the next page
\* and its pageInfo; past the last page the connection is empty and its
\* endCursor is null
Connection(pages, cursor) ==
    LET idx == cursor + 1 IN
    IF idx <= Len(pages)
      THEN [present |-> TRUE, nodes |-> pages[idx],
            hasNextPage |-> idx < Len(pages), endCursor |-> idx]
      ELSE [present |-> TRUE, nodes |-> <<>>,
            hasNextPage |-> FALSE, endCursor |-> NullCursor]

\* `.get("repositories", {})` on a failed answer
NoConnection ==
    [present |-> FALSE, nodes |-> <<>>, hasNextPage |-> FALSE, endCursor |-> NullCursor]

\* viewer.login, createdAt and the four totalCount fields
Username == "ada"
CreatedAt == "2020-01-01T00:00:00Z"
ViewerCounts == [followers |-> 7, following |-> 3, sponsoring |-> 0,
                 starred_repositories |-> 5]

\* contributionYears and each year's contributionCalendar.totalContributions
ContributionYears == <<2023, 2024>>
TotalContributions(year) == CASE year = 2023 -> 5 [] year = 2024 -> 7

\* /repos/{repo}/stats/contributors: author login and weekly (a, d)
Contributors(r) ==
    CASE r = "u/a" -> << [login |-> "ada", weeks |-> << <<10, 1>>, <<5, 2>> >>],
                         [login |-> "bob", weeks |-> << <<100, 100>> >>] >>
      [] r = "u/b" -> << [login |-> "bob", weeks |-> << <<7, 7>> >>] >>
      [] r = "o/c" -> << [login |-> "ada", weeks |-> << <<20, 30>> >>] >>

(***************************************************************************)
(* Stats.get: processing of one overview answer (stats.py:306-342)         *)
(***************************************************************************)
EmptyDict == [n \in {} |-> 0]

\* `name in self._repositories`
\* (faulty variant: the membership test left out)
AlreadySeenNever(name, repositories) == FALSE
AlreadySeen(name, repositories) == name \in repositories

\* `name in self.options.excluded_repos`
IsExcludedRepo(name, opts) == name \in opts.excluded_repos

\* `name.lower() in {x.lower() for x in self.options.excluded_langs}`
\* (faulty variant: compared without lowering)
IsExcludedLangExact(name, opts) == name \in opts.excluded_langs
IsExcludedLang(name, opts) == Lower(name) \in {Lower(x) : x \in opts.excluded_langs}

\* one language edge of a repository (lines 329-342)
AddLanguage(languages, edge, opts) ==
    IF IsExcludedLang(edge.name, opts) THEN languages
    ELSE IF edge.name \in DOMAIN languages
      THEN [languages EXCEPT ![edge.name] =
               [@ EXCEPT !.size = @ + edge.size, !.occurrences = @ + 1]]
      ELSE [n \in DOMAIN languages \cup {edge.name} |->
               IF n = edge.name
                 THEN [size |-> edge.size, occurrences |-> 1,
                       color |-> edge.color, prop |-> None]
                 ELSE languages[n]]

RECURSIVE AddLanguages(_, _, _)
AddLanguages(languages, edges, opts) ==
    IF edges = <<>> THEN languages
    ELSE AddLanguages(AddLanguage(languages, Head(edges), opts), Tail(edges), opts)

\* one node of `repos` (lines 319-342); acc holds the four running fields
ProcessRepo(acc, node, opts) ==
    IF node = NullNode THEN acc
    ELSE IF AlreadySeen(node, acc.repositories) \/ IsExcludedRepo(node, opts) THEN acc
    ELSE [repositories |-> acc.repositories \cup {node},
          stargazers   |-> acc.stargazers + StargazerCount(node),
          forks        |-> acc.forks + ForkCount(node),
          languages    |-> AddLanguages(acc.languages, LanguageEdges(node), opts)]

RECURSIVE ProcessRepos(_, _, _)
ProcessRepos(acc, nodes, opts) ==
    IF nodes = <<>> THEN acc
    ELSE ProcessRepos(ProcessRepo(acc, Head(nodes), opts), Tail(nodes), opts)

\* the working list `repos` (lines 315-317)
\* (faulty variant: the contributed-to nodes appended whatever the option)
WorkingListBoth(owned, contrib, opts) == owned.nodes \o contrib.nodes
WorkingList(owned, contrib, opts) ==
    IF opts.exclude_forked_repos THEN owned.nodes ELSE owned.nodes \o contrib.nodes

\* the loop condition (lines 344-346)
HasNextPage(owned, contrib) == owned.hasNextPage \/ contrib.hasNextPage

\* `pageInfo.get("endCursor", cursor)` (lines 347-352)
NextCursor(connection, cursor) ==
    IF connection.present THEN connection.endCursor ELSE cursor

RECURSIVE SumSizes(_, _)
SumSizes(languages, names) ==
    IF names = {} THEN 0
    ELSE LET n == CHOOSE x \in names : TRUE
         IN languages[n].size + SumSizes(languages, names \ {n})

\* `langs_total` (line 356)
\* (faulty variant: the size of one language instead of the sum)
LangsTotalOfFirst(languages) ==
    IF DOMAIN languages = {} THEN 0
    ELSE languages[CHOOSE x \in DOMAIN languages : TRUE].size
LangsTotal(languages) == SumSizes(languages, DOMAIN languages)

\* lines 356-358 raise ZeroDivisionError
DividesByZero(languages) == DOMAIN languages # {} /\ LangsTotal(languages) = 0

\* `v["prop"] = 100 * (size / langs_total)`, kept as the exact fraction num/den
WithProps(languages) ==
    [n \in DOMAIN languages |->
        [languages[n] EXCEPT !.prop =
            Some([num |-> 100 * languages[n].size, den |-> LangsTotal(languages)])]]

(***************************************************************************)
(* gen.main: three generate_image tasks share one Stats object.  A task    *)
(* runs until it awaits the network; `running` is the task being run.      *)
(***************************************************************************)
\* asyncio.gather(generate_image("languages"), ("overview"), ("community"))
NTasks == 3
Tasks == 1..NTasks
TemplateName(t) == CASE t = 1 -> "languages" [] t = 2 -> "overview" [] OTHER -> "community"

\* the accessors generate_image awaits, in order (gen.py:115-133)
Replacements ==
    <<"name", "joined", "joined", "followers", "following", "sponsoring",
      "starred_repositories", "stargazers", "forks", "total_contributions",
      "lines_changed", "lines_changed", "repositories">>
Program(t) ==
    IF TemplateName(t) = "languages" THEN Replacements \o <<"languages">>
    ELSE Replacements

\* the accessors that fall back to get()
GetBacked == {"name", "joined", "followers", "following", "sponsoring",
              "starred_repositories", "stargazers", "forks", "languages",
              "repositories"}

\* Stats.__init__ (lines 230-241); repositories_id tells the set objects apart
StatsInit ==
    [name |-> None, joined |-> None, followers |-> None, following |-> None,
     sponsoring |-> None, starred_repositories |-> None, stargazers |-> None,
     forks |-> None, total_contributions |-> None, languages |-> None,
     repositories |-> None, lines_changed |-> None, repositories_id |-> 0]

TaskInit(pc) ==
    [pc |-> pc, ip |-> 1, cont |-> "accessor",
     next_owned |-> NullCursor, next_contrib |-> NullCursor,
     nqueries |-> 0, seen |-> {}, skipped |-> {},
     additions |-> 0, deletions |-> 0, todo |-> <<>>, iter_id |-> 0, iter_size |-> 0,
     rest_empty |-> {},
     years |-> <<>>, contributions |-> None,
     get_calls |-> 0, lines_fetches |-> 0, error |-> "none"]

\* `if self._x is not None: return self._x`
\* (faulty variant: the cached field is never used)
CachedNever(st, f) == FALSE
Cached(st, f) == st[f] # None

Field(t) == Program(t)[tasks[t].ip]
Reading(t) == running = t /\ tasks[t].pc = "access"

\* every task created by gather runs its first step before the loop polls I/O
AllStarted == \A u \in Tasks : tasks[u].pc # "start"
\* an exception of one task ends gather and with it the run
NoneRaised == \A u \in Tasks : tasks[u].pc # "raised"
Resumes(t, pc) == running = 0 /\ AllStarted /\ NoneRaised /\ tasks[t].pc = pc

\* the accessors from position ip on that find their fields set in st
\* return them without awaiting: the first whose field is unset
RECURSIVE FirstUnset(_, _, _)
FirstUnset(st, program, ip) ==
    IF ip > Len(program) \/ ~Cached(st, program[ip]) THEN ip
    ELSE FirstUnset(st, program, ip + 1)

\* the accessor at task.ip has returned to generate_image, the Stats fields
\* being st: the task runs on through the accessors that find their fields
\* set, to the first that has to fetch or to the end of `replacements`
Returned(task, st, program) ==
    LET stop == FirstUnset(st, program, task.ip + 1)
        read == {program[i] : i \in (task.ip + 1) .. (stop - 1)}
    IN [task EXCEPT !.pc = IF stop > Len(program) THEN "done" ELSE "access",
                    !.ip = stop,
                    !.contributions = IF "total_contributions" \in read
                                        THEN st.total_contributions ELSE @]

\* the task keeps running unless it is done
RunsOn(t, task) == IF task.pc = "access" THEN t ELSE 0

\* the first step of a task: generate_image up to its first accessor that
\* has to fetch
Start(t) ==
    /\ running = 0 /\ tasks[t].pc = "start"
    /\ LET task == Returned([tasks[t] EXCEPT !.ip = 0], stats, Program(t))
       IN tasks' = [tasks EXCEPT ![t] = task] /\ running' = RunsOn(t, task)
    /\ UNCHANGED <<sem_value, stats, overview_failed, failures_left, contrib_fetches, othersRun>>

\* get(), lines 248-265: reset the running fields and issue the first query
GetStarts(t, cont) ==
    /\ SemCanAcquire
    /\ stats' = [stats EXCEPT !.stargazers = Some(0), !.forks = Some(0),
                              !.languages = Some(EmptyDict),
                              !.repositories = Some({}),
                              !.repositories_id = @ + 1]
    /\ tasks' = [tasks EXCEPT ![t].pc = "get_query", ![t].cont = cont,
                              ![t].next_owned = NullCursor,
                              ![t].next_contrib = NullCursor,
                              ![t].nqueries = 1, ![t].seen = {}, ![t].skipped = {},
                              ![t].get_calls = @ + 1,
                              ![t].lines_fetches =
                                   IF cont = "lines_changed" THEN @ + 1 ELSE @]
    /\ sem_value' = sem_value - 1
    /\ running' = 0

\* an accessor backed by get() finds its field unset: `await self.get()`
AccessGet(t) ==
    /\ Reading(t) /\ Field(t) \in GetBacked /\ ~Cached(stats, Field(t))
    /\ GetStarts(t, "accessor")
    /\ UNCHANGED <<overview_failed, failures_left, contrib_fetches, othersRun>>

\* an upstream call fails (query_graphql answers {}, query_rest exhausts its
\* attempts) a bounded number of times in a run
MaxFailures == 2
MaxGatherFailures == 1
MayFail(ok) == ok \/ failures_left > 0
FailuresAfter(ok) == IF ok THEN failures_left ELSE failures_left - 1

\* the overview answer for the cursors of task t; a failed call answers {}
OwnedAnswer(t, ok) ==
    IF ok THEN Connection(owned_pages, tasks[t].next_owned) ELSE NoConnection
ContribAnswer(t, ok) ==
    IF ok THEN Connection(contrib_pages, tasks[t].next_contrib) ELSE NoConnection

\* lines 267-304: the scalar fields are overwritten from every answer
WithProfile(st, ok) ==
    [st EXCEPT
       !.name = IF ~ok THEN Some("No Name")
                ELSE IF display_name # None THEN display_name ELSE Some(Username),
       !.joined = IF ok THEN Some(CreatedAt) ELSE @,
       !.followers = Some(IF ok THEN ViewerCounts.followers ELSE 0),
       !.following = Some(IF ok THEN ViewerCounts.following ELSE 0),
       !.sponsoring = Some(IF ok THEN ViewerCounts.sponsoring ELSE 0),
       !.starred_repositories = Some(IF ok THEN ViewerCounts.starred_repositories ELSE 0)]

\* lines 306-342 applied to the shared running fields
Running4(st) ==
    [repositories |-> st.repositories[1], stargazers |-> st.stargazers[1],
     forks |-> st.forks[1], languages |-> st.languages[1]]
Processed(t, ok) ==
    ProcessRepos(Running4(stats),
                 WorkingList(OwnedAnswer(t, ok), ContribAnswer(t, ok), options),
                 options)
WithRunning4(st, acc) ==
    [st EXCEPT !.repositories = Some(acc.repositories),
               !.stargazers = Some(acc.stargazers),
               !.forks = Some(acc.forks),
               !.languages = Some(acc.languages)]

NodeNames(nodes) == {nodes[i] : i \in 1..Len(nodes)} \ {NullNode}
\* history: the names in the working list, and those skipped as already seen
SeenAfter(t, ok) ==
    tasks[t].seen \cup
      NodeNames(WorkingList(OwnedAnswer(t, ok), ContribAnswer(t, ok), options))
RECURSIVE Skips(_, _)
Skips(nodes, repositories) ==
    IF nodes = <<>> THEN {}
    ELSE IF Head(nodes) = NullNode \/ IsExcludedRepo(Head(nodes), options)
      THEN Skips(Tail(nodes), repositories)
    ELSE (IF Head(nodes) \in repositories THEN {Head(nodes)} ELSE {})
         \cup Skips(Tail(nodes), repositories \cup {Head(nodes)})
SkippedAfter(t, ok) ==
    tasks[t].skipped \cup
      Skips(WorkingList(OwnedAnswer(t, ok), ContribAnswer(t, ok), options),
            stats.repositories[1])

\* an overview answer arrives, is processed, and reports a next page:
\* the cursors are taken from it and the next query is issued (lines 344-352)
GetNextPage(t) ==
    /\ Resumes(t, "get_query")
    /\ \E ok \in BOOLEAN :
         /\ HasNextPage(OwnedAnswer(t, ok), ContribAnswer(t, ok))
         /\ stats' = WithRunning4(WithProfile(stats, ok), Processed(t, ok))
         /\ tasks' = [tasks EXCEPT
               ![t].next_owned = NextCursor(OwnedAnswer(t, ok), @),
               ![t].next_contrib = NextCursor(ContribAnswer(t, ok), @),
               ![t].nqueries = @ + 1,
               ![t].seen = SeenAfter(t, ok), ![t].skipped = SkippedAfter(t, ok)]
         /\ overview_failed' = (overview_failed \/ ~ok)
         /\ MayFail(ok) /\ failures_left' = FailuresAfter(ok)
    /\ UNCHANGED <<sem_value, running, contrib_fetches, othersRun>>

\* an overview answer arrives, is processed, and reports no next page: the
\* loop is left and the percentages are computed (lines 354-358), where the
\* division raises ZeroDivisionError when the recorded sizes add up to 0
GetCompletes(t) ==
    /\ Resumes(t, "get_query")
    /\ \E ok \in BOOLEAN :
         /\ ~HasNextPage(OwnedAnswer(t, ok), ContribAnswer(t, ok))
         /\ MayFail(ok) /\ failures_left' = FailuresAfter(ok)
         /\ overview_failed' = (overview_failed \/ ~ok)
         /\ IF DividesByZero(Processed(t, ok).languages)
              THEN /\ stats' = WithRunning4(WithProfile(stats, ok), Processed(t, ok))
                   /\ tasks' = [tasks EXCEPT ![t].pc = "raised",
                         ![t].error = "ZeroDivisionError",
                         ![t].seen = SeenAfter(t, ok),
                         ![t].skipped = SkippedAfter(t, ok)]
                   /\ UNCHANGED running
              ELSE /\ stats' = [WithRunning4(WithProfile(stats, ok), Processed(t, ok))
                         EXCEPT !.languages = Some(WithProps(Processed(t, ok).languages))]
                   /\ tasks' = [tasks EXCEPT ![t].pc = "get_done",
                         ![t].seen = SeenAfter(t, ok),
                         ![t].skipped = SkippedAfter(t, ok)]
                   /\ running' = t
    /\ sem_value' = sem_value + 1
    /\ UNCHANGED <<contrib_fetches, othersRun>>

\* the set iterator of lines_changed: the names in iteration order
RepoOrder == <<"u/a", "u/b", "o/c">>
InOrder(repositories) ==
    LET Member(r) == r \in repositories IN SelectSeq(RepoOrder, Member)

\* `for repo in await self.repositories:` is entered (line 531)
LoopEntered(t) ==
    [tasks[t] EXCEPT !.pc = "lines_loop", !.additions = 0, !.deletions = 0,
                     !.rest_empty = {},
                     !.todo = InOrder(stats.repositories[1]),
                     !.iter_id = stats.repositories_id,
                     !.iter_size = Cardinality(stats.repositories[1])]

\* the set iterator finds the set it iterates changed in size
SetChanged(task) ==
    /\ stats.repositories_id = task.iter_id
    /\ Cardinality(stats.repositories[1]) # task.iter_size

\* the `for` header of lines_changed (line 531) reached by a task in state
\* `task` with `permits` free in the semaphore: next(iterator) raises
\* RuntimeError (Set changed size during iteration), or yields a repository
\* for which query_rest is awaited (line 532), or stops, and the pair is
\* stored and returned (lines 546-547)
ForHeader(t, task, permits) ==
    IF SetChanged(task)
      THEN /\ tasks' = [tasks EXCEPT ![t] =
                 [task EXCEPT !.pc = "raised", !.error = "RuntimeError"]]
           /\ sem_value' = permits
           /\ running' = 0
           /\ UNCHANGED stats
    ELSE IF task.todo # <<>>
      THEN /\ permits > 0
           /\ tasks' = [tasks EXCEPT ![t] = [task EXCEPT !.pc = "lines_rest"]]
           /\ sem_value' = permits - 1
           /\ running' = 0
           /\ UNCHANGED stats
    ELSE LET st  == [stats EXCEPT
                        !.lines_changed = Some(<<task.additions, task.deletions>>)]
             ret == Returned([task EXCEPT !.additions = 0, !.deletions = 0,
                                          !.iter_id = 0, !.iter_size = 0],
                             st, Program(t))
         IN /\ stats' = st
            /\ tasks' = [tasks EXCEPT ![t] = ret]
            /\ sem_value' = permits
            /\ running' = RunsOn(t, ret)

\* the locals of get() and what is recorded of the call end with the call
GetEnded(task) ==
    [task EXCEPT !.next_owned = NullCursor, !.next_contrib = NullCursor,
                 !.nqueries = 0, !.seen = {}, !.skipped = {}]

\* get() has returned to the accessor that awaited it: its
\* `assert self._x is not None` raises AssertionError or the accessor
\* returns; lines_changed, which awaited self.repositories, enters its loop
GetReturns(t) ==
    /\ running = t /\ tasks[t].pc = "get_done"
    /\ IF tasks[t].cont = "accessor"
         THEN /\ IF stats[Field(t)] = None
                   THEN /\ tasks' = [tasks EXCEPT ![t] =
                              [GetEnded(@) EXCEPT !.pc = "raised",
                                                  !.error = "AssertionError"]]
                        /\ running' = 0
                   ELSE LET ret == Returned(GetEnded(tasks[t]), stats, Program(t))
                        IN /\ tasks' = [tasks EXCEPT ![t] = ret]
                           /\ running' = RunsOn(t, ret)
              /\ UNCHANGED <<sem_value, stats>>
         ELSE ForHeader(t, GetEnded(LoopEntered(t)), sem_value)
    /\ UNCHANGED <<overview_failed, failures_left, contrib_fetches, othersRun>>

\* the value total_contributions stores before it awaits (line 501)
ContribPlaceholder == Some(0)

\* total_contributions finds its field unset: it stores 0 and queries the
\* contribution years (lines 498-508)
AccessTotalContributions(t) ==
    /\ Reading(t) /\ Field(t) = "total_contributions" /\ ~Cached(stats, Field(t))
    /\ SemCanAcquire
    /\ stats' = [stats EXCEPT !.total_contributions = ContribPlaceholder]
    /\ tasks' = [tasks EXCEPT ![t].pc = "contrib_years"]
    /\ contrib_fetches' = contrib_fetches + 1
    /\ sem_value' = sem_value - 1
    /\ running' = 0
    /\ UNCHANGED <<overview_failed, failures_left, othersRun>>

\* the years arrive ([] from a failed call); the per-year query is issued
ContribYearsAnswer(t) ==
    /\ Resumes(t, "contrib_years")
    /\ \E ok \in BOOLEAN :
         /\ MayFail(ok) /\ failures_left' = FailuresAfter(ok)
         /\ tasks' = [tasks EXCEPT ![t].pc = "contrib_all",
                                   ![t].years = IF ok THEN ContributionYears ELSE <<>>]
    /\ UNCHANGED <<sem_value, stats, running, overview_failed, contrib_fetches, othersRun>>

RECURSIVE SumYears(_)
SumYears(years) ==
    IF years = <<>> THEN 0 ELSE TotalContributions(Head(years)) + SumYears(Tail(years))

\* the per-year totals arrive and are added up (lines 509-519)
ContribAllAnswer(t) ==
    /\ Resumes(t, "contrib_all")
    /\ \E ok \in BOOLEAN :
         LET base  == IF stats.total_contributions = None THEN 0
                      ELSE stats.total_contributions[1]
             total == base + (IF ok THEN SumYears(tasks[t].years) ELSE 0)
             st    == [stats EXCEPT !.total_contributions = Some(total)]
             ret   == Returned([tasks[t] EXCEPT !.years = <<>>,
                                               !.contributions = Some(total)],
                               st, Program(t))
         IN /\ MayFail(ok) /\ failures_left' = FailuresAfter(ok)
            /\ stats' = st
            /\ tasks' = [tasks EXCEPT ![t] = ret]
            /\ running' = RunsOn(t, ret)
    /\ sem_value' = sem_value + 1
    /\ UNCHANGED <<overview_failed, contrib_fetches, othersRun>>

\* lines_changed finds its field unset (lines 527-531); `await
\* self.repositories` runs get() first when the set is unset, and otherwise
\* the loop is entered
AccessLinesChanged(t) ==
    /\ Reading(t) /\ Field(t) = "lines_changed" /\ ~Cached(stats, Field(t))
    /\ IF Cached(stats, "repositories")
         THEN ForHeader(t, [LoopEntered(t) EXCEPT !.lines_fetches = @ + 1], sem_value)
         ELSE GetStarts(t, "lines_changed")
    /\ UNCHANGED <<overview_failed, failures_left, contrib_fetches, othersRun>>

RECURSIVE SumWeeks(_, _)
SumWeeks(weeks, k) ==
    IF weeks = <<>> THEN 0 ELSE Head(weeks)[k] + SumWeeks(Tail(weeks), k)

\* lines 533-544: the weeks of the entries whose author is the user
\* (faulty variant: the author is not compared)
AuthorIsAnyone(author_obj) == TRUE
AuthorIsUser(author_obj) == author_obj.login = Username
RECURSIVE SumAuthor(_, _)
SumAuthor(r, k) ==
    IF r = <<>> THEN 0
    ELSE (IF AuthorIsUser(Head(r)) THEN SumWeeks(Head(r).weeks, k) ELSE 0)
         + SumAuthor(Tail(r), k)

\* what query_rest returns: the contributors, or the empty result when its
\* attempts are exhausted
RestResult(repo, ok) == IF ok THEN Contributors(repo) ELSE <<>>

\* query_rest returns, the entries are added up (lines 533-544) and the loop
\* is back at its header; rest_empty is history: the repositories for which
\* query_rest returned its empty result
LinesAnswer(t) ==
    /\ Resumes(t, "lines_rest")
    /\ \E ok \in BOOLEAN :
         LET r == RestResult(Head(tasks[t].todo), ok)
         IN /\ MayFail(ok) /\ failures_left' = FailuresAfter(ok)
            /\ ForHeader(t, [tasks[t] EXCEPT !.pc = "lines_loop",
                                            !.additions = @ + SumAuthor(r, 1),
                                            !.deletions = @ + SumAuthor(r, 2),
                                            !.rest_empty =
                                                IF ok THEN @ ELSE @ \cup {Head(tasks[t].todo)},
                                            !.todo = Tail(@)],
                         sem_value + 1)
    /\ UNCHANGED <<overview_failed, contrib_fetches, othersRun>>

\* get() run from start to end by one caller against the server data, no
\* call failing: the loop of lines 255-354 and the percentages of 356-358.
\* The loop is unrolled at most GetFuel times.
GetFuel == (Len(owned_pages) + 1) * (Len(contrib_pages) + 1) + 1
RECURSIVE GetLoop(_, _, _, _)
GetLoop(acc, next_owned, next_contrib, fuel) ==
    LET owned   == Connection(owned_pages, next_owned)
        contrib == Connection(contrib_pages, next_contrib)
        after   == ProcessRepos(acc, WorkingList(owned, contrib, options), options)
    IN IF HasNextPage(owned, contrib) /\ fuel > 0
         THEN GetLoop(after, NextCursor(owned, next_owned),
                      NextCursor(contrib, next_contrib), fuel - 1)
         ELSE after
GetAlone ==
    LET acc == GetLoop([repositories |-> {}, stargazers |-> 0, forks |-> 0,
                        languages |-> EmptyDict], NullCursor, NullCursor, GetFuel)
    IN IF DividesByZero(acc.languages) THEN acc
       ELSE [acc EXCEPT !.languages = WithProps(acc.languages)]

(***************************************************************************)
(* Idle values of the parts a specification does not exercise              *)
(***************************************************************************)
CallersIdleInit == callers = <<>>
RunIdleInit ==
    /\ owned_pages = <<>> /\ contrib_pages = <<>> /\ display_name = None
    /\ options = [excluded_repos |-> {}, excluded_langs |-> {},
                  exclude_forked_repos |-> FALSE]
    /\ stats = StatsInit
    /\ tasks = [t \in Tasks |-> TaskInit("absent")]
    /\ running = 0 /\ overview_failed = FALSE /\ failures_left = 0
    /\ contrib_fetches = 0
TplIdleInit ==
    /\ tpl_pc = "idle" /\ tpl_template = <<>> /\ tpl_data = <<>>
    /\ tpl_k = 0 /\ tpl_content = <<>>

(***************************************************************************)
(* SpecRest: one call of query_rest against any server                     *)
(***************************************************************************)
InitRest ==
    /\ sem_value = SemaphorePermits
    /\ rest_pc = "loop" /\ rest_i = 0 /\ rest_requests = 0
    /\ rest_result = None /\ rest_n202 = 0 /\ rest_first = "none"
    /\ CallersIdleInit /\ TplIdleInit /\ RunIdleInit

NextRest == RestIssue \/ RestResponse \/ RestJson \/ RestSleep \/ RestGiveUp

SpecRest == InitRest /\ [][NextRest]_vars

RestIdleInit ==
    /\ rest_pc = "idle" /\ rest_i = 0 /\ rest_requests = 0
    /\ rest_result = None /\ rest_n202 = 0 /\ rest_first = "none"

(***************************************************************************)
(* SpecSem: NCallers concurrent callers of the two query methods           *)
(***************************************************************************)
InitSem ==
    /\ sem_value = SemaphorePermits
    /\ callers = [p \in Positions |-> IF p = "idle" THEN NCallers ELSE 0]
    /\ RestIdleInit /\ TplIdleInit /\ RunIdleInit

NextSem ==
    \/ CallGraphql \/ GqlAcquire \/ GqlHead \/ GqlReturn
    \/ CallRest \/ RestAcquire \/ RestHead \/ RestBody \/ RestWake

SpecSem == InitSem /\ [][NextSem]_vars

(***************************************************************************)
(* SpecTpl: one call of replace_with_data on any template and dict         *)
(***************************************************************************)
InitTpl ==
    /\ sem_value = SemaphorePermits
    /\ RestIdleInit /\ CallersIdleInit /\ RunIdleInit
    /\ tpl_pc = "loop" /\ tpl_k = 0
    /\ tpl_template \in SeqUpTo(Units, MaxTemplateLen)
    /\ tpl_data \in Dicts
    /\ tpl_content = tpl_template

NextTpl == ReplaceItem \/ ReplaceReturn

SpecTpl == InitTpl /\ [][NextTpl]_vars

(***************************************************************************)
(* The runs of generate_image against any server and configuration         *)
(***************************************************************************)
\* Options as main builds them from the environment (gen.py:210-215)
OptionsSet ==
    [excluded_repos : {{}, {"u/a"}, {"U/A", "o/c"}},
     excluded_langs : {{}, {"GO"}},
     exclude_forked_repos : BOOLEAN]

InitRun ==
    /\ sem_value = SemaphorePermits
    /\ RestIdleInit /\ CallersIdleInit /\ TplIdleInit
    /\ stats = StatsInit
    /\ running = 0 /\ overview_failed = FALSE
    /\ contrib_fetches = 0

NextRun ==
    \E t \in Tasks :
       \/ Start(t) \/ AccessGet(t)
       \/ GetNextPage(t) \/ GetCompletes(t)
       \/ GetReturns(t)
       \/ AccessTotalContributions(t) \/ ContribYearsAnswer(t) \/ ContribAllAnswer(t)
       \/ AccessLinesChanged(t) \/ LinesAnswer(t)

\* one task alone
InitSolo ==
    /\ InitRun
    /\ owned_pages \in SeqUpTo(PageSet, MaxOwnedPages)
    /\ contrib_pages \in SeqUpTo(ContribPageSet, MaxContribPages)
    /\ display_name \in {None, Some("Ada")}
    /\ options \in OptionsSet
    /\ tasks = [t \in Tasks |-> TaskInit(IF t = 1 THEN "start" ELSE "absent")]
    /\ failures_left = MaxFailures

SpecSolo == InitSolo /\ [][NextRun]_vars

\* the three tasks of gen.main
MaxGatherOwnedPages == 2
MaxGatherContribPages == 1
\* the collections of these runs: the owned pages alternate, the
\* contributed-to pages are all the same
GatherOwnedPage(i) ==
    IF i % 2 = 1 THEN <<"u/a">> ELSE <<"u/b", NullNode, "u/a", "u/b">>
GatherContribPage(i) == <<"u/b", "u/a">>
GatherOwned == {[i \in 1..n |-> GatherOwnedPage(i)] : n \in 0..MaxGatherOwnedPages}
GatherContrib ==
    {[i \in 1..n |-> GatherContribPage(i)] : n \in 0..MaxGatherContribPages}
InitGather ==
    /\ InitRun
    /\ owned_pages \in GatherOwned
    /\ contrib_pages \in GatherContrib
    /\ display_name = Some("Ada")
    /\ options = [excluded_repos |-> {}, excluded_langs |-> {},
                  exclude_forked_repos |-> FALSE]
    /\ tasks = [t \in Tasks |-> TaskInit("start")]
    /\ failures_left = MaxGatherFailures

Spec == InitGather /\ [][NextRun]_vars

(***************************************************************************)
(* Claims about query_rest (SpecRest)                                      *)
(***************************************************************************)
\* C3 (as stated): a call never issues more than 60 requests; when the first
\* answer that is not a 202 carries a JSON payload (JSON null included) after
\* N leading 202s, the call returns that payload after exactly N + 1 requests;
\* when every answer is a 202 it returns the empty result after 60 requests.
C3_AnyJsonPayloadReturned ==
    /\ rest_requests <= RestAttempts
    /\ (rest_pc = "done" /\ rest_first \in Payloads \cup {"null"})
          => (rest_result = Some(rest_first) /\ rest_requests = rest_n202 + 1)
    /\ (rest_pc = "done" /\ rest_first = "none")
          => (rest_result = Some("{}") /\ rest_requests = RestAttempts)

\* C3 (amended): the same, for a first non-202 answer whose JSON payload is
\* not null: it is returned after exactly N + 1 requests; an always-202 server
\* gets exactly 60 requests and the empty result; never more than 60 requests.
C3_RetryLoop ==
    /\ rest_requests <= RestAttempts
    /\ (rest_pc = "done" /\ rest_first \in Payloads)
          => (rest_result = Some(rest_first) /\ rest_requests = rest_n202 + 1)
    /\ (rest_pc = "done" /\ rest_first = "none")
          => (rest_result = Some("{}") /\ rest_requests = RestAttempts)

\* the payload arrives on the last permitted attempt, after 59 answers of 202
C3_Witness ==
    /\ rest_pc = "done" /\ rest_first \in Payloads
    /\ rest_n202 = RestAttempts - 1 /\ rest_requests = RestAttempts
    /\ rest_result = Some(rest_first)

(***************************************************************************)
(* Claims about the concurrency limiter (SpecSem)                          *)
(***************************************************************************)
\* C4: at most 10 outbound HTTP requests are in flight (issued, and the
\* exchange not yet complete) at any time, whoever the callers are.
C4_AtMostTenInFlight == InFlight <= SemaphorePermits

(***************************************************************************)
(* Claims about replace_with_data (SpecTpl)                                *)
(***************************************************************************)
Occurs(p, s) == \E i \in 1..(Len(s) - Len(p) + 1) : SubSeq(s, i, i + Len(p) - 1) = p

Keys(d) == {d[i][1] : i \in 1..Len(d)}
IndexOf(d, key) == CHOOSE i \in 1..Len(d) : d[i][1] = key

\* markers occur only as complete placeholders <<"{{ ", name, " }}">>
RECURSIVE PlainTemplate(_)
PlainTemplate(s) ==
    \/ s = <<>>
    \/ Head(s) \in Names /\ PlainTemplate(Tail(s))
    \/ /\ Len(s) >= 3 /\ s[1] = Open /\ s[2] \in Names /\ s[3] = Close
       /\ PlainTemplate(SubSeq(s, 4, Len(s)))

PlainValues(d) == \A i \in 1..Len(d) : \A j \in 1..Len(d[i][2]) : d[i][2][j] \in Names

\* one pass over a plain template, each placeholder of a key replaced by its value
RECURSIVE Substituted(_, _)
Substituted(s, d) ==
    IF s = <<>> THEN <<>>
    ELSE IF Head(s) = Open
         THEN (IF s[2] \in Keys(d) THEN d[IndexOf(d, s[2])][2] ELSE SubSeq(s, 1, 3))
              \o Substituted(SubSeq(s, 4, Len(s)), d)
         ELSE <<Head(s)>> \o Substituted(Tail(s), d)

\* C10 (as stated): for any template and any replacement map, the output
\* contains no placeholder "{{ key }}" of any key of the map.
C10_NoPlaceholderRemains ==
    tpl_pc = "done" => \A key \in Keys(tpl_data) : ~Occurs(Placeholder(key), tpl_content)

\* C10 (amended): when braces occur in the template only as complete
\* placeholders "{{ name }}" and no value of the map contains a brace, every
\* placeholder whose key is in the map is replaced by the key's value (the
\* rest of the template is kept) and no placeholder of a key remains.
C10_PlainSubstitution ==
    (tpl_pc = "done" /\ PlainTemplate(tpl_template) /\ PlainValues(tpl_data))
       => /\ tpl_content = Substituted(tpl_template, tpl_data)
          /\ \A key \in Keys(tpl_data) : ~Occurs(Placeholder(key), tpl_content)

\* "b{{ a }}" rendered with {"a": "b"}: the placeholder became its value
C10_Witness ==
    /\ tpl_pc = "done"
    /\ tpl_template = <<"b", Open, "a", Close>>
    /\ tpl_data = << <<"a", <<"b">> >> >>
    /\ tpl_content = <<"b", "b">>

(***************************************************************************)
(* Claims about Stats.get called by one task (SpecSolo)                    *)
(***************************************************************************)
RECURSIVE SumFn(_, _)
SumFn(f, S) ==
    IF S = {} THEN 0
    ELSE LET x == CHOOSE y \in S : TRUE IN f[x] + SumFn(f, S \ {x})

AllRepos == {"u/a", "u/b", "o/c"}
Stars(S) == SumFn([r \in AllRepos |-> StargazerCount(r)], S)
Forks(S) == SumFn([r \in AllRepos |-> ForkCount(r)], S)

\* the language edges of the repositories of S, as (repository, index) pairs
EdgesIn(S) == {e \in S \X (1..2) : e[2] <= Len(LanguageEdges(e[1]))}
EdgeAt(e) == LanguageEdges(e[1])[e[2]]
EdgesNamed(S, n) == {e \in EdgesIn(S) : EdgeAt(e).name = n}
Bytes(S, n) == SumFn([e \in EdgesIn(S) |-> EdgeAt(e).size], EdgesNamed(S, n))

Repositories == stats.repositories[1]
Languages == stats.languages[1]
GetDone(t) == tasks[t].pc = "get_done"

\* C1: a repository that appears more than once in the pages (in both
\* lists, on one page or on several) adds its stargazers and forks to the
\* totals exactly once and its languages are accumulated exactly once: when
\* get() is done, every repository it was shown that is not excluded is in the
\* set, the totals are the sums over the set, and each language's size and
\* occurrence count are the sum and number of its edges over the set.
C1_CountedExactlyOnce ==
    \A t \in Tasks : GetDone(t) =>
       /\ Repositories = {r \in tasks[t].seen : ~IsExcludedRepo(r, options)}
       /\ stats.stargazers = Some(Stars(Repositories))
       /\ stats.forks = Some(Forks(Repositories))
       /\ \A n \in DOMAIN Languages :
             /\ Languages[n].size = Bytes(Repositories, n)
             /\ Languages[n].occurrences = Cardinality(EdgesNamed(Repositories, n))

\* get() is done and met a repository it had already counted
C1_Witness ==
    \E t \in Tasks : /\ GetDone(t) /\ ~overview_failed
                     /\ tasks[t].skipped # {} /\ stats.stargazers # Some(0)

LowerExcluded == {Lower(x) : x \in options.excluded_langs}
Counted == {r \in AllRepos : r \notin options.excluded_repos}

\* C2: once get() has run, no repository whose full name is in
\* excluded_repos (exact match) is in the repository set or in the totals or
\* language sizes, which are those of the other repositories that were shown,
\* and no language whose name equals an entry of excluded_langs ignoring case
\* has an entry in the language map.
C2_ExclusionsRespected ==
    \A t \in Tasks : GetDone(t) =>
       /\ Repositories \cap options.excluded_repos = {}
       /\ Repositories = tasks[t].seen \cap Counted
       /\ stats.stargazers = Some(Stars(tasks[t].seen \cap Counted))
       /\ stats.forks = Some(Forks(tasks[t].seen \cap Counted))
       /\ \A n \in DOMAIN Languages :
             /\ Lower(n) \notin LowerExcluded
             /\ Languages[n].size = Bytes(tasks[t].seen \cap Counted, n)
       /\ \A e \in EdgesIn(Repositories) :
             Lower(EdgeAt(e).name) \notin LowerExcluded
                => EdgeAt(e).name \in DOMAIN Languages

\* get() is done after it was shown u/a, u/b and o/c with "U/A" and "o/c"
\* excluded, which excludes o/c but not u/a, and with "GO" excluded, which
\* excludes the language Go of u/b
C2_Witness ==
    \E t \in Tasks :
       /\ GetDone(t) /\ ~overview_failed
       /\ options.excluded_repos = {"U/A", "o/c"} /\ options.excluded_langs = {"GO"}
       /\ AllRepos \subseteq tasks[t].seen
       /\ Repositories = {"u/a", "u/b"}
       /\ DOMAIN Languages = {"Python"}

Max(a, b) == IF a >= b THEN a ELSE b

\* C5 (as stated): for collections of any numbers of pages get() ends after
\* max(pages_owned, pages_contrib) overview queries (one query when both are
\* empty), no call failing.
C5_QueriesMaxOfPages ==
    \A t \in Tasks : (GetDone(t) /\ ~overview_failed) =>
       tasks[t].nqueries = Max(1, Max(Len(owned_pages), Len(contrib_pages)))

\* C6 (as stated): whatever the upstream calls answer, no accessor raises.
C6_NoAccessorRaises == \A t \in Tasks : tasks[t].pc # "raised"

RECURSIVE SizeSum(_, _)
SizeSum(languages, names) ==
    IF names = {} THEN 0
    ELSE LET n == CHOOSE x \in names : TRUE
         IN languages[n].size + SizeSum(languages, names \ {n})
RECURSIVE NumSum(_, _)
NumSum(languages, names) ==
    IF names = {} THEN 0
    ELSE LET n == CHOOSE x \in names : TRUE
         IN languages[n].prop[1].num + NumSum(languages, names \ {n})
Percent(l) == l.prop[1]

\* C9: when get() is done with a recorded language of nonzero size, every
\* recorded language's percentage p (a fraction num/den) satisfies
\* p = 100 * size / (sum of the recorded sizes), and the percentages add up to
\* 100; with the owned repositories u/a (Python, 100) and u/b (Go, 300) and
\* no exclusions Python has 25 and Go 75.
C9_Percentages ==
    \A t \in Tasks : GetDone(t) =>
       LET total == SizeSum(Languages, DOMAIN Languages) IN
       /\ \A n \in DOMAIN Languages :
             /\ Languages[n].prop # None
             /\ Percent(Languages[n]).den # 0
             /\ Percent(Languages[n]).num * total
                   = 100 * Languages[n].size * Percent(Languages[n]).den
             /\ \A m \in DOMAIN Languages :
                   Percent(Languages[m]).den = Percent(Languages[n]).den
       /\ \A n \in DOMAIN Languages :
             NumSum(Languages, DOMAIN Languages) = 100 * Percent(Languages[n]).den
       /\ (/\ Repositories = {"u/a", "u/b"}
           /\ options.excluded_langs = {})
            => /\ Percent(Languages["Python"]).num = 25 * Percent(Languages["Python"]).den
               /\ Percent(Languages["Go"]).num = 75 * Percent(Languages["Go"]).den

\* the two owned repositories of the example, no exclusions: 25 and 75
C9_Witness ==
    \E t \in Tasks :
       /\ GetDone(t) /\ ~overview_failed
       /\ owned_pages = << <<"u/a", "u/b">> >> /\ contrib_pages = <<>>
       /\ options.excluded_repos = {} /\ options.excluded_langs = {}
       /\ DOMAIN Languages = {"Python", "Go"}
       /\ Languages["Python"].size = 100 /\ Languages["Go"].size = 300
       /\ Percent(Languages["Python"]).num = 25 * Percent(Languages["Python"]).den

\* a step of get() by task t that takes the cursors from an answer and
\* issues the next query
ContinuesLoop(t) ==
    /\ tasks[t].pc = "get_query" /\ tasks'[t].pc = "get_query"
    /\ tasks'[t].nqueries = tasks[t].nqueries + 1

\* the cursor is the end cursor of the last page of the collection (null for
\* a collection without pages): the collection has no next page
AtEnd(pages, cursor) == cursor = Len(pages)

\* C11 (as stated): while the loop of get() continues because the other
\* collection still has a next page, the cursor of a collection that is at
\* its end keeps its value: it is not advanced, not reset to null, not
\* otherwise changed.
C11_FinishedCursorFrozen ==
    [][\A t \in Tasks : ContinuesLoop(t) =>
          /\ AtEnd(owned_pages, tasks[t].next_owned)
                => tasks'[t].next_owned = tasks[t].next_owned
          /\ AtEnd(contrib_pages, tasks[t].next_contrib)
                => tasks'[t].next_contrib = tasks[t].next_contrib]_vars

\* the names on the page of a collection that the query `after: cursor` shows
ShownPage(pages, cursor) ==
    IF cursor + 1 <= Len(pages)
      THEN {pages[cursor + 1][j] : j \in 1..Len(pages[cursor + 1])} \ {NullNode}
      ELSE {}

\* a step in which an overview answer arrives for task t and is processed,
\* the call not having failed
AnswerProcessed(t) ==
    /\ tasks[t].pc = "get_query" /\ tasks'[t] # tasks[t]
    /\ failures_left' = failures_left

SizeOf(languages, n) == IF n \in DOMAIN languages THEN languages[n].size ELSE 0

\* C12: every overview answer adds to the repository set, the totals and
\* the language sizes the repositories named on its owned page and, if and
\* only if exclude_forked_repos is false, those named on its contributed-to
\* page (excluded and already counted repositories apart); with
\* exclude_forked_repos true nothing comes from the contributed-to page.
C12_WorkingList ==
    [][\A t \in Tasks : AnswerProcessed(t) =>
          LET own   == ShownPage(owned_pages, tasks[t].next_owned)
              con   == ShownPage(contrib_pages, tasks[t].next_contrib)
              shown == IF options.exclude_forked_repos THEN own ELSE own \cup con
              new   == (shown \ options.excluded_repos) \ Repositories
          IN /\ stats'.repositories = Some(Repositories \cup new)
             /\ stats'.stargazers = Some(stats.stargazers[1] + Stars(new))
             /\ stats'.forks = Some(stats.forks[1] + Forks(new))
             /\ DOMAIN stats'.languages[1] =
                   DOMAIN Languages \cup
                     {EdgeAt(e).name : e \in {x \in EdgesIn(new) :
                          Lower(EdgeAt(x).name) \notin LowerExcluded}}
             /\ \A n \in DOMAIN stats'.languages[1] :
                   stats'.languages[1][n].size = SizeOf(Languages, n) + Bytes(new, n)]_vars

\* get() is done with exclude_forked_repos true: the contributed-to pages
\* named o/c, the owned page did not, and o/c was not counted
C12_Witness ==
    \E t \in Tasks :
       /\ GetDone(t) /\ ~overview_failed
       /\ options.exclude_forked_repos /\ options.excluded_repos = {}
       /\ owned_pages = << <<"u/a", "u/b">> >>
       /\ Len(contrib_pages) = 2
       /\ Repositories = {"u/a", "u/b"}
       /\ stats.stargazers = Some(3) /\ stats.forks = Some(30)

\* the entries of a repository's contributor statistics and their weeks, as
\* (repository, entry, week) triples
WeeksIn(S) ==
    {w \in S \X (1..2) \X (1..2) :
        /\ w[2] <= Len(Contributors(w[1]))
        /\ w[3] <= Len(Contributors(w[1])[w[2]].weeks)}
WeeksOfUser(S) == {w \in WeeksIn(S) : Contributors(w[1])[w[2]].login = Username}
\* k = 1: additions, k = 2: deletions
Lines(S, k) ==
    SumFn([w \in WeeksIn(S) |-> Contributors(w[1])[w[2]].weeks[w[3]][k]], WeeksOfUser(S))

LinesStored(t) ==
    /\ tasks[t].lines_fetches = 1 /\ stats.lines_changed # None
    /\ tasks[t].pc \in {"access", "done", "contrib_years", "contrib_all"}

\* C13: the pair lines_changed stores is (sum of the weekly additions, sum
\* of the weekly deletions) over the repositories of the repository set whose
\* REST call returned contributor statistics and over their entries whose
\* author login is the username; the entries of other authors add nothing, a
\* repository whose call returned the empty result adds zero, and the loop
\* raises nothing.
C13_LinesChanged ==
    \A t \in Tasks :
       /\ tasks[t].error # "RuntimeError"
       /\ tasks[t].rest_empty \subseteq AllRepos
       /\ LinesStored(t) =>
             /\ tasks[t].rest_empty \subseteq Repositories
             /\ stats.lines_changed =
                   Some(<<Lines(Repositories \ tasks[t].rest_empty, 1),
                          Lines(Repositories \ tasks[t].rest_empty, 2)>>)

\* the three repositories were iterated, u/a with entries of the user and of
\* another author, u/b with entries of another author only, and o/c with
\* its REST call returning the empty result
C13_Witness ==
    \E t \in Tasks :
       /\ LinesStored(t) /\ tasks[t].pc = "done"
       /\ Repositories = AllRepos
       /\ tasks[t].rest_empty = {"o/c"}
       /\ stats.lines_changed = Some(<<15, 3>>)

(***************************************************************************)
(* Claims about the three tasks of gen.main (Spec)                         *)
(***************************************************************************)
GetRan(t) == tasks[t].get_calls >= 1 /\ tasks[t].pc # "get_query"

\* C7: when the tasks sharing the Stats object have each made a first access
\* that ran get(), then under every interleaving of their awaits, once all
\* these get() calls have completed (no overview call having failed) the
\* stargazer total, fork total, repository set and per-language size,
\* occurrence count and percentage are those a single get() run alone
\* produces from the same server data.
C7_RaceConverges ==
    ((\A t \in Tasks : GetRan(t)) /\ ~overview_failed)
       => Running4(stats) = GetAlone

\* the three get() calls ran concurrently over two owned pages and one
\* contributed-to page, and the one that ended last had met every repository
\* when it was already counted
C7_Witness ==
    /\ \A t \in Tasks : GetRan(t) /\ tasks[t].get_calls = 1
    /\ \E t \in Tasks : GetDone(t) /\ tasks[t].skipped = {"u/a", "u/b"}
    /\ ~overview_failed
    /\ Len(owned_pages) = 2 /\ Len(contrib_pages) = 1
    /\ Repositories = {"u/a", "u/b"}
    /\ Running4(stats) = GetAlone

GetCalls == SumFn([t \in Tasks |-> tasks[t].get_calls], Tasks)
LinesFetches == SumFn([t \in Tasks |-> tasks[t].lines_fetches], Tasks)

\* C8 (as stated): get(), the total-contributions fetch and the
\* lines-changed fetch are each executed at most once per run.
C8_AtMostOncePerRun ==
    GetCalls <= 1 /\ contrib_fetches <= 1 /\ LinesFetches <= 1

\* C8 (amended): the total-contributions fetch is executed at most once per
\* run; get() and the lines-changed fetch are executed at most once by each
\* task of the run (get() at most twice by a task when an overview call
\* failed), and a task that has read a field reads it from the cache after.
C8_AtMostOncePerTask ==
    /\ contrib_fetches <= 1
    /\ \A t \in Tasks :
          /\ tasks[t].lines_fetches <= 1
          /\ tasks[t].get_calls <= 2
          /\ ~overview_failed => tasks[t].get_calls <= 1

\* the run is over: each task ran get() and the lines-changed fetch once, and
\* one of them fetched the total contributions
C8_Witness ==
    /\ \A t \in Tasks : /\ tasks[t].pc = "done"
                        /\ tasks[t].get_calls = 1 /\ tasks[t].lines_fetches = 1
    /\ contrib_fetches = 1
    /\ ~overview_failed

\* the sum of the per-year totals of all contribution years
YearSet == {ContributionYears[i] : i \in 1..Len(ContributionYears)}
TotalOfYears == SumFn([y \in YearSet |-> TotalContributions(y)], YearSet)

\* C14 (as stated): under every interleaving of the tasks, no call having
\* failed, every value the total_contributions accessor has returned to a
\* task is the sum of the per-year totals of all contribution years, never
\* the initial 0 or an intermediate sum.
C14_NoPartialRead ==
    failures_left = MaxGatherFailures =>
       \A t \in Tasks :
          tasks[t].contributions # None => tasks[t].contributions = Some(TotalOfYears)

====
